---- MODULE Spec2Model ----
(***************************************************************************)
(* Model of directory/testdir/directory.go: the in-memory directory        *)
(* service (Service) that keeps per-user Merkle trees of directory blobs   *)
(* in a content-addressed store and a Root map from user to root key.      *)
(*                                                                         *)
(* A path name is a sequence of tokens: the user name, then elements       *)
(* separated by the token "/".  A blob is a sequence of units: a directory *)
(* payload is the concatenation of its marshaled entries (one unit each),  *)
(* user data is a sequence of raw units.  A key is the position of its     *)
(* blob in the store, and equal blobs share a key.  Of a DirEntry the      *)
(* model keeps Name, Location.Key, Metadata.IsDir and Metadata.Sequence;   *)
(* Size, Time, PackData and the endpoints decide no branch of the code.    *)
(***************************************************************************)
EXTENDS Naturals, Sequences, FiniteSets, TLC

VARIABLES
    Root,    \* Service.Root: user name -> key of the user's root directory
    store,   \* the blobs of Service.Store, by key
    last,    \* the latest call: its arguments and its results
    prev,    \* Root and store before the latest call
    writes,  \* the number of calls of Put and MakeDirectory so far
    puts,    \* per path, the number of successful calls of Put
    mu,      \* Service.mu: the goroutines holding it, by mode
    proc,    \* per goroutine, the call it is in and how far it has got
    calls    \* the number of calls the goroutines have made so far

vars == <<Root, store, last, prev, writes, puts, mu, proc, calls>>

----------------------------------------------------------------------------
(* Bounds and input sets *)

MaxWrites == 4
MaxSeq == 1
MaxCalls == 2

Users == {"u", "v"}
ElemNames == {"a", "b"}
Sep == "/"

Nil == "nil"
NoKey == 0

Raw(x) == [raw |-> x]
DataSet == {<<>>, <<Raw(1)>>}

NilOpts == [isNil |-> TRUE, Sequence |-> 0]
OptsSet == {NilOpts} \cup {[isNil |-> FALSE, Sequence |-> s] : s \in 1..MaxSeq}

\* The element lists of the paths the callers use, per user.
ElemSeqs(u) ==
    IF u = "u"
    THEN {<<>>, <<"a">>, <<"b">>, <<"a", "a">>, <<"a", "b">>}
    ELSE {<<>>, <<"a">>}

----------------------------------------------------------------------------
(* Path syntax (package path) *)

IsElem(t) == t # Sep

Parse(pathName) ==
    IF Len(pathName) = 0 \/ pathName[1] = Sep
       \/ ~ \E i \in 1..Len(pathName) : pathName[i] = Sep
    THEN [err |-> "MalformedPath", User |-> Nil, Elems |-> <<>>]
    ELSE [err |-> Nil, User |-> pathName[1],
          Elems |-> SelectSeq(Tail(pathName), IsElem)]

Path(parsed) ==
    IF Len(parsed.Elems) = 0
    THEN <<parsed.User, Sep>>
    ELSE <<parsed.User>> \o
         [i \in 1..(2 * Len(parsed.Elems)) |->
             IF i % 2 = 1 THEN Sep ELSE parsed.Elems[i \div 2]]

First(parsed, n) == [parsed EXCEPT !.Elems = SubSeq(@, 1, n)]

Drop(parsed, n) == [parsed EXCEPT !.Elems = SubSeq(@, 1, Len(@) - n)]

Join(pathName, elem) ==
    IF pathName[Len(pathName)] = Sep
    THEN Append(pathName, elem)
    ELSE pathName \o <<Sep, elem>>

MkParsed(user, elems) == [err |-> Nil, User |-> user, Elems |-> elems]

\* The names given to MakeDirectory, Put and Lookup: well-formed ones, and
\* one without a slash.
PathNames ==
    UNION {{Path(MkParsed(u, es)) : es \in ElemSeqs(u)} : u \in Users}
    \cup {<<"u">>}

\* A second set of names: one user whose root holds up to three children.
WideElemNames == {"a", "b", "c"}

WideNames ==
    {Path(MkParsed("u", <<>>))}
    \cup {Path(MkParsed("u", <<e>>)) : e \in WideElemNames}

----------------------------------------------------------------------------
(* Blob store (content addressed) *)

HasBlob(st, blob) == \E i \in 1..Len(st) : st[i] = blob

KeyOf(st, blob) ==
    IF HasBlob(st, blob)
    THEN CHOOSE i \in 1..Len(st) : st[i] = blob
    ELSE Len(st) + 1

\* The n-th Store.Put call of an operation; it fails when fault = n.
StorePut(st, blob, n, fault) ==
    IF n = fault
    THEN [err |-> "StoreError", key |-> NoKey, store |-> st]
    ELSE [err |-> Nil, key |-> KeyOf(st, blob),
          store |-> IF HasBlob(st, blob) THEN st ELSE Append(st, blob)]

StoreGet(st, key) == st[key]

----------------------------------------------------------------------------
(* Directory entries and payloads *)

DirEntry(name, key, isDir, seq) ==
    [Name |-> name, Key |-> key, IsDir |-> isDir, Sequence |-> seq]

NilEntry == DirEntry(<<>>, NoKey, FALSE, 0)

Marshal(entry) == <<entry>>

packDirBlob(cleartext) == cleartext

unpackDirBlob(ciphertext) == ciphertext

fetchDir(st, dirKey) == unpackDirBlob(StoreGet(st, dirKey))

\* A blob that reads as a directory payload.
IsDirBlob(blob) == \A i \in 1..Len(blob) : "Name" \in DOMAIN blob[i]

\* Index of the first entry of the payload with the given name, 0 if none.
FirstIndex(payload, name) ==
    IF \E i \in 1..Len(payload) : payload[i].Name = name
    THEN CHOOSE i \in 1..Len(payload) :
            /\ payload[i].Name = name
            /\ \A j \in 1..(i - 1) : payload[j].Name # name
    ELSE 0

dirEntLookup(pathName, payload, elem) ==
    IF elem = ""
    THEN [err |-> "EmptyElement", entry |-> NilEntry]
    ELSE LET fileName == Join(pathName, elem)
             i == FirstIndex(payload, fileName)
         IN IF i = 0
            THEN [err |-> "NotFound", entry |-> NilEntry]
            ELSE [err |-> Nil, entry |-> payload[i]]

fetchEntry(st, name, dirKey, elem) ==
    dirEntLookup(name, fetchDir(st, dirKey), elem)

----------------------------------------------------------------------------
(* Tree mutation *)

\* Mutant: the splice that leaves the old entry in place.
Remove_Nothing(s, i) == s

\* Mutant: the entry after the found one is dropped.
Remove_Next(s, i) == SubSeq(s, 1, i) \o SubSeq(s, i + 2, Len(s))

\* Mutant: the found entry is dropped with all that follow it.
Remove_Tail(s, i) == SubSeq(s, 1, i - 1)

Remove(s, i) == SubSeq(s, 1, i - 1) \o SubSeq(s, i + 1, Len(s))

\* Mutant: the directory check left out.
overwriteRefused_Never(nextEntry, dirOverwriteOK) == FALSE

\* An existing directory entry is replaced only when the caller allows it.
overwriteRefused(nextEntry, dirOverwriteOK) ==
    nextEntry.IsDir /\ ~ dirOverwriteOK

\* Mutant: the sequence comparison left out.
sequenceMismatch_Never(newEntry, nextEntry) == FALSE

\* A sequence number carried by the new entry must be the stored one.
sequenceMismatch(newEntry, nextEntry) ==
    newEntry.Sequence # 0 /\ newEntry.Sequence # nextEntry.Sequence

\* The replacing entry: nextEntry's sequence plus one, the rest from newEntry.
replacement(newEntry, nextEntry) ==
    [newEntry EXCEPT !.Sequence = nextEntry.Sequence + 1]

\* Mutant: the directory blob is rewritten under its own key.
installEntry_InPlace(dirKey, newEntry, dirOverwriteOK, st, n, fault) ==
    LET dirData == fetchDir(st, dirKey)
        i == FirstIndex(dirData, newEntry.Name)
    IN IF i # 0 /\ overwriteRefused(dirData[i], dirOverwriteOK)
       THEN [err |-> "CannotOverwriteDirectory", key |-> NoKey, store |-> st]
       ELSE IF i # 0 /\ sequenceMismatch(newEntry, dirData[i])
       THEN [err |-> "SequenceMismatch", key |-> NoKey, store |-> st]
       ELSE LET spliced == IF i = 0 THEN dirData ELSE Remove(dirData, i)
                entry == IF i = 0
                         THEN newEntry
                         ELSE replacement(newEntry, dirData[i])
            IN [err |-> Nil, key |-> dirKey,
                store |-> [st EXCEPT
                             ![dirKey] = packDirBlob(spliced \o Marshal(entry))]]

\* installEntry installs newEntry in the directory referenced by dirKey,
\* appending or overwriting; n is the ordinal of its Store.Put call.
installEntry(dirKey, newEntry, dirOverwriteOK, st, n, fault) ==
    LET dirData == fetchDir(st, dirKey)
        i == FirstIndex(dirData, newEntry.Name)
    IN IF i # 0 /\ overwriteRefused(dirData[i], dirOverwriteOK)
       THEN [err |-> "CannotOverwriteDirectory", key |-> NoKey, store |-> st]
       ELSE IF i # 0 /\ sequenceMismatch(newEntry, dirData[i])
       THEN [err |-> "SequenceMismatch", key |-> NoKey, store |-> st]
       ELSE LET spliced == IF i = 0 THEN dirData ELSE Remove(dirData, i)
                entry == IF i = 0
                         THEN newEntry
                         ELSE replacement(newEntry, dirData[i])
                p == StorePut(st, packDirBlob(spliced \o Marshal(entry)),
                              n, fault)
            IN [err |-> p.err, key |-> p.key, store |-> p.store]

\* Mutant: the descent whose loop never runs.
putWalk_NoDescent(parsed, st, i, dirKey, entries) ==
    [err |-> Nil, dirKey |-> dirKey, entries |-> entries]

\* The descent of put (the loop over all elements but the last), from the
\* 0-based index i with dirKey the directory reached so far.
RECURSIVE putWalk(_, _, _, _, _)
putWalk(parsed, st, i, dirKey, entries) ==
    IF i + 1 >= Len(parsed.Elems)
    THEN [err |-> Nil, dirKey |-> dirKey, entries |-> entries]
    ELSE LET f == fetchEntry(st, Path(First(parsed, i)), dirKey,
                             parsed.Elems[i + 1])
         IN IF f.err # Nil
            THEN [err |-> f.err, dirKey |-> NoKey, entries |-> entries]
            ELSE IF ~ f.entry.IsDir
            THEN [err |-> "NotADirectory", dirKey |-> NoKey,
                  entries |-> entries]
            ELSE putWalk(parsed, st, i + 1, f.entry.Key,
                         Append(entries, f.entry))

\* The rewrite of the tree up to the root: installs into entries[j] the
\* entry entries[j+1] (1-based), now stored at dirKey, for j down to 1.
RECURSIVE putRewrite(_, _, _, _, _, _)
putRewrite(entries, j, dirKey, st, n, fault) ==
    IF j = 0
    THEN [err |-> Nil, key |-> dirKey, store |-> st]
    ELSE LET dirEntry == DirEntry(entries[j + 1].Name, dirKey, TRUE, 0)
             r == installEntry(entries[j].Key, dirEntry, TRUE, st, n, fault)
         IN IF r.err # Nil
            THEN r
            ELSE putRewrite(entries, j - 1, r.key, r.store, n + 1, fault)

\* Mutant: the root key set at creation only.
SetRoot_OnlyNewUsers(R, user, key) ==
    [x \in (DOMAIN R) \cup {user} |-> IF x \in DOMAIN R THEN R[x] ELSE key]

SetRoot(R, user, key) ==
    [x \in (DOMAIN R) \cup {user} |-> IF x = user THEN key ELSE R[x]]

PutResult(err, key, R, st) ==
    [err |-> err, key |-> key, Root |-> R, store |-> st]

\* The sequence put gives the new entry before installEntry sees it.
initialSequence(opts) ==
    IF ~ opts.isNil /\ opts.Sequence # 0 THEN opts.Sequence ELSE 0

\* Mutant: put that stores the leaf directory's key as the root before the
\* rewrite of the ancestors.
put_CommitsBeforeRewrite(pathName, dataIsDir, data, opts, fault, R, st) ==
    LET parsed == Parse(pathName)
    IN IF parsed.err # Nil
       THEN PutResult(Nil, NoKey, R, st)
       ELSE IF Len(parsed.Elems) = 0
       THEN PutResult("MustUseMakeDirectory", NoKey, R, st)
       ELSE IF parsed.User \notin DOMAIN R
       THEN PutResult("NoSuchUser", NoKey, R, st)
       ELSE
       LET rootEntry == DirEntry(<<>>, R[parsed.User], TRUE, 0)
           w == putWalk(parsed, st, 0, R[parsed.User], <<rootEntry>>)
       IN IF w.err # Nil
          THEN PutResult(w.err, NoKey, R, st)
          ELSE
          LET p == StorePut(st, data, 1, fault)
          IN IF p.err # Nil
             THEN PutResult(p.err, NoKey, R, st)
             ELSE
             LET newEntry ==
                     DirEntry(pathName, p.key, dataIsDir,
                              initialSequence(opts))
                 ie == installEntry(w.dirKey, newEntry, FALSE, p.store,
                                    2, fault)
             IN IF ie.err # Nil
                THEN PutResult(ie.err, NoKey, R, ie.store)
                ELSE
                LET rw == putRewrite(w.entries, Len(w.entries) - 1, ie.key,
                                     ie.store, 3, fault)
                IN IF rw.err # Nil
                   THEN PutResult(rw.err, NoKey,
                                   SetRoot(R, parsed.User, ie.key),
                                   rw.store)
                   ELSE PutResult(Nil, p.key,
                                  SetRoot(R, parsed.User, rw.key), rw.store)

\* put is the underlying implementation of Put and MakeDirectory.
put(pathName, dataIsDir, data, opts, fault, R, st) ==
    LET parsed == Parse(pathName)
    IN IF parsed.err # Nil
       THEN PutResult(Nil, NoKey, R, st)
       ELSE IF Len(parsed.Elems) = 0
       THEN PutResult("MustUseMakeDirectory", NoKey, R, st)
       ELSE IF parsed.User \notin DOMAIN R
       THEN PutResult("NoSuchUser", NoKey, R, st)
       ELSE
       LET rootEntry == DirEntry(<<>>, R[parsed.User], TRUE, 0)
           w == putWalk(parsed, st, 0, R[parsed.User], <<rootEntry>>)
       IN IF w.err # Nil
          THEN PutResult(w.err, NoKey, R, st)
          ELSE
          LET p == StorePut(st, data, 1, fault)
          IN IF p.err # Nil
             THEN PutResult(p.err, NoKey, R, st)
             ELSE
             LET newEntry ==
                     DirEntry(pathName, p.key, dataIsDir,
                              initialSequence(opts))
                 ie == installEntry(w.dirKey, newEntry, FALSE, p.store,
                                    2, fault)
             IN IF ie.err # Nil
                THEN PutResult(ie.err, NoKey, R, ie.store)
                ELSE
                LET rw == putRewrite(w.entries, Len(w.entries) - 1, ie.key,
                                     ie.store, 3, fault)
                IN IF rw.err # Nil
                   THEN PutResult(rw.err, NoKey, R, rw.store)
                   ELSE PutResult(Nil, p.key,
                                  SetRoot(R, parsed.User, rw.key), rw.store)

\* Mutant: the root created again over an existing one.
MakeDirectory_NoPresenceCheck(directoryName, fault, R, st) ==
    LET parsed == Parse(directoryName)
    IN IF parsed.err # Nil
       THEN PutResult(parsed.err, NoKey, R, st)
       ELSE IF Len(parsed.Elems) = 0
       THEN LET p == StorePut(st, packDirBlob(<<>>), 1, fault)
            IN IF p.err # Nil
               THEN PutResult(p.err, NoKey, R, st)
               ELSE PutResult(Nil, p.key,
                              SetRoot(R, parsed.User, p.key), p.store)
       ELSE put(Path(parsed), TRUE, <<>>, NilOpts, fault, R, st)

\* Mutant: a missing user root created on the way.
MakeDirectory_AutoRoot(directoryName, fault, R, st) ==
    LET parsed == Parse(directoryName)
    IN IF parsed.err # Nil
       THEN PutResult(parsed.err, NoKey, R, st)
       ELSE IF Len(parsed.Elems) = 0
       THEN IF parsed.User \in DOMAIN R
            THEN PutResult("AlreadyExists", NoKey, R, st)
            ELSE LET p == StorePut(st, packDirBlob(<<>>), 1, fault)
                 IN IF p.err # Nil
                    THEN PutResult(p.err, NoKey, R, st)
                    ELSE PutResult(Nil, p.key,
                                   SetRoot(R, parsed.User, p.key), p.store)
       ELSE IF parsed.User \notin DOMAIN R
       THEN LET p == StorePut(st, packDirBlob(<<>>), 1, fault)
            IN IF p.err # Nil
               THEN PutResult(p.err, NoKey, R, st)
               ELSE put(Path(parsed), TRUE, <<>>, NilOpts, fault,
                        SetRoot(R, parsed.User, p.key), p.store)
       ELSE put(Path(parsed), TRUE, <<>>, NilOpts, fault, R, st)

MakeDirectory(directoryName, fault, R, st) ==
    LET parsed == Parse(directoryName)
    IN IF parsed.err # Nil
       THEN PutResult(parsed.err, NoKey, R, st)
       ELSE IF Len(parsed.Elems) = 0
       THEN IF parsed.User \in DOMAIN R
            THEN PutResult("AlreadyExists", NoKey, R, st)
            ELSE LET p == StorePut(st, packDirBlob(<<>>), 1, fault)
                 IN IF p.err # Nil
                    THEN PutResult(p.err, NoKey, R, st)
                    ELSE PutResult(Nil, p.key,
                                   SetRoot(R, parsed.User, p.key), p.store)
       ELSE put(Path(parsed), TRUE, <<>>, NilOpts, fault, R, st)

Put(pathName, data, opts, fault, R, st) ==
    LET parsed == Parse(pathName)
    IN IF parsed.err # Nil
       THEN PutResult(parsed.err, NoKey, R, st)
       ELSE put(Path(parsed), FALSE, data, opts, fault, R, st)

----------------------------------------------------------------------------
(* Lookup *)

RECURSIVE lookupWalk(_, _, _, _)
lookupWalk(parsed, st, i, dirKey) ==
    IF i + 1 >= Len(parsed.Elems)
    THEN [err |-> Nil, dirKey |-> dirKey]
    ELSE LET f == fetchEntry(st, Path(First(parsed, i)), dirKey,
                             parsed.Elems[i + 1])
         IN IF f.err # Nil
            THEN [err |-> f.err, dirKey |-> NoKey]
            ELSE IF ~ f.entry.IsDir
            THEN [err |-> "NotADirectory", dirKey |-> NoKey]
            ELSE lookupWalk(parsed, st, i + 1, f.entry.Key)

Lookup(pathName, R, st) ==
    LET parsed == Parse(pathName)
    IN IF parsed.err # Nil
       THEN [err |-> Nil, entry |-> NilEntry]
       ELSE IF Len(parsed.Elems) = 0
       THEN [err |-> "UseGlobForDirectories", entry |-> NilEntry]
       ELSE IF parsed.User \notin DOMAIN R
       THEN [err |-> "NoSuchUser", entry |-> NilEntry]
       ELSE LET w == lookupWalk(parsed, st, 0, R[parsed.User])
            IN IF w.err # Nil
               THEN [err |-> w.err, entry |-> NilEntry]
               ELSE fetchEntry(st, Path(Drop(parsed, 1)), w.dirKey,
                               parsed.Elems[Len(parsed.Elems)])

----------------------------------------------------------------------------
(* Glob *)

Star == "*"
BadPat == "["
PatternElems == ElemNames \cup {Star, BadPat}

PatternSeqs(u) ==
    IF u = "u"
    THEN {<<>>, <<"a">>, <<Star>>, <<BadPat>>, <<"a", Star>>, <<"a", "b">>,
          <<Star, Star>>, <<BadPat, "a">>}
    ELSE {<<>>, <<Star>>}

Patterns ==
    UNION {{Path(MkParsed(u, es)) : es \in PatternSeqs(u)} : u \in Users}
    \cup {<<"u">>}

WidePatterns ==
    {Path(MkParsed("u", <<>>))}
    \cup {Path(MkParsed("u", <<e>>)) : e \in WideElemNames \cup {Star}}

\* goPath.Match on one element: "*" matches every name, "[" alone is a
\* malformed character class, any other pattern matches itself.
Match(pattern, name) ==
    IF pattern = BadPat
    THEN [err |-> "MalformedPattern", matched |-> FALSE]
    ELSE [err |-> Nil, matched |-> (pattern = Star \/ pattern = name)]

\* Byte order of the tokens, for the comparison of names as strings.
Rank(t) ==
    CASE t = Star -> 42
      [] t = Sep -> 47
      [] t = BadPat -> 91
      [] t = "a" -> 97
      [] t = "b" -> 98
      [] t = "c" -> 99
      [] t = "u" -> 117
      [] t = "v" -> 118
      [] OTHER -> 127

RECURSIVE NameLess(_, _)
NameLess(x, y) ==
    IF Len(y) = 0 THEN FALSE
    ELSE IF Len(x) = 0 THEN TRUE
    ELSE IF Rank(Head(x)) # Rank(Head(y)) THEN Rank(Head(x)) < Rank(Head(y))
    ELSE NameLess(Tail(x), Tail(y))

RECURSIVE Insert(_, _)
Insert(sorted, e) ==
    IF Len(sorted) = 0 THEN <<e>>
    ELSE IF NameLess(e.Name, Head(sorted).Name) THEN <<e>> \o sorted
    ELSE <<Head(sorted)>> \o Insert(Tail(sorted), e)

dirEntrySliceSort_None(d) == d

\* sort.Sort(dirEntrySlice(next))
RECURSIVE dirEntrySliceSort(_)
dirEntrySliceSort(d) ==
    IF Len(d) = 0 THEN <<>>
    ELSE Insert(dirEntrySliceSort(SubSeq(d, 1, Len(d) - 1)), d[Len(d)])

\* The scan of one candidate's payload against one pattern element.
RECURSIVE globPayload(_, _, _)
globPayload(payload, elem, next) ==
    IF Len(payload) = 0
    THEN [err |-> Nil, next |-> next]
    ELSE LET nextEntry == Head(payload)
             parsed == Parse(nextEntry.Name)
         IN IF parsed.err # Nil
            THEN [err |-> parsed.err, next |-> <<>>]
            ELSE LET m == Match(elem, parsed.Elems[Len(parsed.Elems)])
                 IN IF m.err # Nil
                    THEN [err |-> m.err, next |-> <<>>]
                    ELSE globPayload(Tail(payload), elem,
                                     IF m.matched
                                     THEN Append(next, nextEntry)
                                     ELSE next)

\* The loop over the candidates of one level.
RECURSIVE globLevel(_, _, _, _)
globLevel(this, elem, next, st) ==
    IF Len(this) = 0
    THEN [err |-> Nil, next |-> next]
    ELSE LET ent == Head(this)
         IN IF ~ ent.IsDir
            THEN globLevel(Tail(this), elem, next, st)
            ELSE LET r == globPayload(fetchDir(st, ent.Key), elem, next)
                 IN IF r.err # Nil
                    THEN r
                    ELSE globLevel(Tail(this), elem, r.next, st)

\* The loop over the pattern's elements.
RECURSIVE globElems(_, _, _)
globElems(elems, next, st) ==
    IF Len(elems) = 0
    THEN [err |-> Nil, next |-> next]
    ELSE LET r == globLevel(next, Head(elems), <<>>, st)
         IN IF r.err # Nil
            THEN r
            ELSE globElems(Tail(elems), r.next, st)

Glob_SlashDirectories(pattern, R, st) ==
    LET parsed == Parse(pattern)
    IN IF parsed.err # Nil
       THEN [err |-> parsed.err, next |-> <<>>]
       ELSE IF parsed.User \notin DOMAIN R
       THEN [err |-> "NoSuchUser", next |-> <<>>]
       ELSE LET root == DirEntry(Path(First(parsed, 0)), R[parsed.User],
                                 TRUE, 0)
                r == globElems(parsed.Elems, <<root>>, st)
            IN IF r.err # Nil
               THEN r
               ELSE LET slashed ==
                            [i \in 1..Len(r.next) |->
                                IF r.next[i].IsDir
                                THEN [r.next[i] EXCEPT !.Name = Append(@, Sep)]
                                ELSE r.next[i]]
                    IN [err |-> Nil, next |-> dirEntrySliceSort(slashed)]

Glob(pattern, R, st) ==
    LET parsed == Parse(pattern)
    IN IF parsed.err # Nil
       THEN [err |-> parsed.err, next |-> <<>>]
       ELSE IF parsed.User \notin DOMAIN R
       THEN [err |-> "NoSuchUser", next |-> <<>>]
       ELSE LET root == DirEntry(Path(First(parsed, 0)), R[parsed.User],
                                 TRUE, 0)
                r == globElems(parsed.Elems, <<root>>, st)
            IN IF r.err # Nil
               THEN r
               ELSE LET slashed ==
                            [i \in 1..Len(r.next) |->
                                IF r.next[i].Name = <<parsed.User>>
                                THEN [r.next[i] EXCEPT !.Name = Append(@, Sep)]
                                ELSE r.next[i]]
                    IN [err |-> Nil, next |-> dirEntrySliceSort(slashed)]

----------------------------------------------------------------------------
(* The service as a state machine.  Every exported operation runs under    *)
(* the lock mu and is one atomic step.  last records the latest call and   *)
(* its result, prev the Root map and the store before it; writes counts    *)
(* the calls of Put and MakeDirectory, puts the successful Puts per path.  *)
(* A call that changes neither Root nor the store (a Lookup, a Glob, a     *)
(* write that fails before its first Store.Put) leaves the service as it   *)
(* was, so the calls after it behave as from the state before it: the      *)
(* model records such a call and its result as the last step of a          *)
(* behaviour.                                                              *)

Faults == 0..3

Idle == [op |-> "none", path |-> <<>>, data |-> <<>>, opts |-> NilOpts,
         fault |-> 0, err |-> Nil, key |-> NoKey, entry |-> NilEntry,
         next |-> <<>>]

CanonPaths == {p \in PathNames \cup WideNames : Parse(p).err = Nil}

Canon(pathName) == Path(Parse(pathName))

Final ==
    \/ last.op \in {"Lookup", "Glob"}
    \/ last.err # Nil /\ store = prev.store

\* The goroutines that call the service at the same time.
Procs == {1, 2}

Unlocked == [writers |-> {}, readers |-> {}]

IdleProc == [pc |-> "idle", op |-> "none", path |-> <<>>, snap |-> NoKey,
             seen |-> {}, newRoot |-> NoKey, during |-> FALSE, err |-> Nil,
             key |-> NoKey, entry |-> NilEntry, next |-> <<>>]

\* No call under way: the lock free, every goroutine outside the service.
Quiet ==
    /\ mu = Unlocked
    /\ proc = [p \in Procs |-> IdleProc]
    /\ calls = 0

Init ==
    /\ Root = [x \in {} |-> NoKey]
    /\ store = <<>>
    /\ last = Idle
    /\ prev = [Root |-> [x \in {} |-> NoKey], store |-> <<>>]
    /\ writes = 0
    /\ puts = [p \in CanonPaths |-> 0]
    /\ Quiet

MakeDirectoryStep(names, faults) ==
    \E directoryName \in names, fault \in faults :
        LET r == MakeDirectory(directoryName, fault, Root, store)
        IN /\ writes < MaxWrites
           /\ ~ Final
           /\ Root' = r.Root
           /\ store' = r.store
           /\ last' = [Idle EXCEPT !.op = "MakeDirectory",
                                   !.path = directoryName,
                                   !.fault = IF r.err = "StoreError" THEN fault ELSE 0,
                                   !.err = r.err, !.key = r.key]
           /\ prev' = [Root |-> Root, store |-> store]
           /\ writes' = writes + 1
           /\ UNCHANGED <<puts, mu, proc, calls>>

PutStep(names, faults) ==
    \E pathName \in names, data \in DataSet, opts \in OptsSet,
       fault \in faults :
        LET r == Put(pathName, data, opts, fault, Root, store)
        IN /\ writes < MaxWrites
           /\ ~ Final
           /\ Root' = r.Root
           /\ store' = r.store
           /\ last' = [Idle EXCEPT !.op = "Put", !.path = pathName,
                                   !.data = data, !.opts = opts,
                                   !.fault = IF r.err = "StoreError" THEN fault ELSE 0,
                                   !.err = r.err, !.key = r.key]
           /\ prev' = [Root |-> Root, store |-> store]
           /\ writes' = writes + 1
           /\ puts' = IF r.err = Nil /\ Parse(pathName).err = Nil
                      THEN [puts EXCEPT ![Canon(pathName)] = @ + 1]
                      ELSE puts
           /\ UNCHANGED <<mu, proc, calls>>

LookupStep(names) ==
    \E pathName \in names :
        LET r == Lookup(pathName, Root, store)
        IN /\ ~ Final
           /\ last' = [Idle EXCEPT !.op = "Lookup", !.path = pathName,
                                   !.err = r.err, !.entry = r.entry]
           /\ prev' = [Root |-> Root, store |-> store]
           /\ UNCHANGED <<Root, store, writes, puts, mu, proc, calls>>

GlobStep(patterns) ==
    \E pattern \in patterns :
        LET r == Glob(pattern, Root, store)
        IN /\ ~ Final
           /\ last' = [Idle EXCEPT !.op = "Glob", !.path = pattern,
                                   !.err = r.err, !.next = r.next]
           /\ prev' = [Root |-> Root, store |-> store]
           /\ UNCHANGED <<Root, store, writes, puts, mu, proc, calls>>

DoMakeDirectory == MakeDirectoryStep(PathNames, Faults)

DoPut == PutStep(PathNames, Faults)

DoLookup == LookupStep(PathNames)

DoGlob == GlobStep(Patterns)

Next == DoMakeDirectory \/ DoPut \/ DoLookup \/ DoGlob

Spec == Init /\ [][Next]_vars

\* The same service called with the second set of names, and a store that
\* does not fail.
WideMakeDirectory == MakeDirectoryStep(WideNames, {0})

WidePut == PutStep(WideNames, {0})

WideLookup == LookupStep(WideNames)

WideGlob == GlobStep(WidePatterns)

NextWide == WideMakeDirectory \/ WidePut \/ WideLookup \/ WideGlob

SpecWide == Init /\ [][NextWide]_vars

----------------------------------------------------------------------------
(* The service called by several goroutines at once.  Every exported       *)
(* operation parses its argument, takes mu (Lock in MakeDirectory and Put, *)
(* RLock in Lookup and Glob), reads Root, works on the store, assigns Root *)
(* at the end of a successful write, and releases mu as it returns.  The   *)
(* store is its own service: each of its calls is one step, and it keeps   *)
(* what it holds, so the blob reads of a call are taken together with its  *)
(* read of Root.  RLock is taken as soon as no writer holds mu.            *)

EmptyRoot == [x \in {} |-> NoKey]

ConcNames ==
    {Path(MkParsed("u", es)) : es \in {<<>>, <<"b">>, <<"a", "b">>}}

ConcPatterns == {Path(MkParsed("u", es)) : es \in {<<Star>>, <<"a", Star>>}}

ConcData == <<Raw(1)>>

WriteOps == {"MakeDirectory", "Put"}
ReadOps == {"Lookup", "Glob"}

Args(op) == IF op = "Glob" THEN ConcPatterns ELSE ConcNames

\* Mutant: every operation takes the read lock.
lockMode_AllRead(op) == "RLock"

\* s.mu.Lock() in MakeDirectory and Put, s.mu.RLock() in Lookup and Glob.
lockMode(op) == IF op \in WriteOps THEN "Lock" ELSE "RLock"

\* Mutant: Lock does not wait.
CanLock_Always(m) == TRUE

\* sync.RWMutex: Lock waits until no goroutine holds the mutex.
CanLock(m) == m.writers = {} /\ m.readers = {}

\* Mutant: RLock does not wait.
CanRLock_Always(m) == TRUE

\* sync.RWMutex: RLock waits until no writer holds the mutex.
CanRLock(m) == m.writers = {}

\* The positions of a call between taking mu and releasing it.
Inside == {"root", "body", "commit", "unlock"}

RootKey(R, user) == IF user \in DOMAIN R THEN R[user] ELSE NoKey

\* The Root map as a call knows it from the one entry it has read.
RootOf(user, key) ==
    IF key = NoKey THEN EmptyRoot ELSE SetRoot(EmptyRoot, user, key)

ReadCall(op, path, R, st) ==
    IF op = "Lookup"
    THEN LET r == Lookup(path, R, st)
         IN [err |-> r.err, entry |-> r.entry, next |-> <<>>]
    ELSE LET r == Glob(path, R, st)
         IN [err |-> r.err, entry |-> NilEntry, next |-> r.next]

WriteCall(op, path, R, st) ==
    IF op = "MakeDirectory"
    THEN MakeDirectory(path, 0, R, st)
    ELSE Put(path, ConcData, NilOpts, 0, R, st)

\* The calls that return before they take mu: a name that does not parse,
\* and a Lookup of a root.
ReturnsUnlocked(op, path) ==
    \/ Parse(path).err # Nil
    \/ op = "Lookup" /\ Len(Parse(path).Elems) = 0

\* What such a call returns: Lookup drops the error of the parse.
EarlyErr(op, path) ==
    IF Parse(path).err = Nil THEN "UseGlobForDirectories"
    ELSE IF op = "Lookup" THEN Nil
    ELSE Parse(path).err

\* A read of Root while another goroutine is inside in a conflicting mode
\* is a data race on the map: it may give any directory key, or none.
Racing(p) ==
    \E q \in Procs \ {p} :
        /\ proc[q].pc \in Inside
        /\ proc[p].op \in WriteOps \/ proc[q].op \in WriteOps

RootOutcomes(p) ==
    IF Racing(p)
    THEN {NoKey} \cup {k \in 1..Len(store) : IsDirBlob(store[k])}
    ELSE {RootKey(Root, Parse(proc[p].path).User)}

\* The service after MakeDirectory("u/") and MakeDirectory("u/a"): the
\* empty blob, which is the directory a, and the root of u holding a.
Seeded ==
    [Root |-> SetRoot(EmptyRoot, "u", 2),
     store |-> << <<>>,
                  <<DirEntry(Path(MkParsed("u", <<"a">>)), 1, TRUE, 0)>> >>]

InitConc ==
    /\ Root = Seeded.Root
    /\ store = Seeded.store
    /\ last = Idle
    /\ prev = [Root |-> Seeded.Root, store |-> Seeded.store]
    /\ writes = 0
    /\ puts = [p \in CanonPaths |-> 0]
    /\ Quiet

\* A goroutine calls an operation: the parse, and the returns before mu.
\* during notes that the call began while another call was under way.
Call ==
    \E p \in Procs, op \in WriteOps \cup ReadOps :
        \E path \in Args(op) :
            /\ calls < MaxCalls
            /\ proc[p].pc = "idle"
            /\ proc' = [proc EXCEPT ![p] =
                   IF ReturnsUnlocked(op, path)
                   THEN [IdleProc EXCEPT !.op = op, !.path = path,
                                         !.err = EarlyErr(op, path)]
                   ELSE [IdleProc EXCEPT
                           !.pc = "lock", !.op = op, !.path = path,
                           !.during = \E q \in Procs \ {p} :
                                          proc[q].pc # "idle",
                           !.seen = IF op \in ReadOps
                                    THEN {RootKey(Root, Parse(path).User)}
                                    ELSE {}]]
            /\ calls' = calls + 1
            /\ UNCHANGED <<Root, store, last, prev, writes, puts, mu>>

\* s.mu.Lock() or s.mu.RLock()
Acquire ==
    \E p \in Procs :
        /\ proc[p].pc = "lock"
        /\ IF lockMode(proc[p].op) = "Lock"
           THEN /\ CanLock(mu)
                /\ mu' = [mu EXCEPT !.writers = @ \cup {p}]
           ELSE /\ CanRLock(mu)
                /\ mu' = [mu EXCEPT !.readers = @ \cup {p}]
        /\ proc' = [proc EXCEPT ![p].pc = "root"]
        /\ UNCHANGED <<Root, store, last, prev, writes, puts, calls>>

\* dirKey, ok := s.Root[parsed.User]; a Lookup or a Glob then reads the
\* blobs from dirKey down and has its result.
ReadRoot ==
    \E p \in Procs :
        /\ proc[p].pc = "root"
        /\ \E k \in RootOutcomes(p) :
              LET user == Parse(proc[p].path).User
                  r == ReadCall(proc[p].op, proc[p].path, RootOf(user, k),
                                store)
              IN proc' = [proc EXCEPT ![p] =
                     IF proc[p].op \in ReadOps
                     THEN [@ EXCEPT !.pc = "unlock", !.snap = k,
                                    !.err = r.err, !.entry = r.entry,
                                    !.next = r.next]
                     ELSE [@ EXCEPT !.pc = "body", !.snap = k]]
        /\ UNCHANGED <<Root, store, last, prev, writes, puts, mu, calls>>

\* The work of MakeDirectory or put from the root key it has read: the
\* checks, the descent, and the blobs it stores.
Body ==
    \E p \in Procs :
        LET user == Parse(proc[p].path).User
            r == WriteCall(proc[p].op, proc[p].path,
                           RootOf(user, proc[p].snap), store)
        IN /\ proc[p].pc = "body"
           /\ store' = r.store
           /\ proc' = [proc EXCEPT ![p] =
                  [@ EXCEPT !.pc = IF r.err = Nil THEN "commit" ELSE "unlock",
                            !.err = r.err, !.key = r.key,
                            !.newRoot = IF r.err = Nil
                                        THEN r.Root[user]
                                        ELSE NoKey]]
           /\ UNCHANGED <<Root, last, prev, writes, puts, mu, calls>>

\* s.Root[parsed.User] = key.  The calls of Lookup and Glob under way note
\* the new key as one that was current during the call.
Commit ==
    \E p \in Procs :
        LET user == Parse(proc[p].path).User
        IN /\ proc[p].pc = "commit"
           /\ Root' = SetRoot(Root, user, proc[p].newRoot)
           /\ proc' = [q \in Procs |->
                  IF q = p
                  THEN [proc[q] EXCEPT !.pc = "unlock"]
                  ELSE IF /\ proc[q].pc # "idle"
                          /\ proc[q].op \in ReadOps
                          /\ Parse(proc[q].path).User = user
                  THEN [proc[q] EXCEPT !.seen = @ \cup {proc[p].newRoot}]
                  ELSE proc[q]]
           /\ UNCHANGED <<store, last, prev, writes, puts, mu, calls>>

\* The deferred s.mu.Unlock() or s.mu.RUnlock(), and the return.
Release ==
    \E p \in Procs :
        /\ proc[p].pc = "unlock"
        /\ mu' = [writers |-> mu.writers \ {p}, readers |-> mu.readers \ {p}]
        /\ proc' = [proc EXCEPT ![p] =
               [IdleProc EXCEPT !.op = proc[p].op, !.path = proc[p].path,
                                !.during = proc[p].during,
                                !.err = proc[p].err]]
        /\ UNCHANGED <<Root, store, last, prev, writes, puts, calls>>

NextConc == Call \/ Acquire \/ ReadRoot \/ Body \/ Commit \/ Release

SpecConc == InitConc /\ [][NextConc]_vars

----------------------------------------------------------------------------
(* Reading the trees, for the properties: the tree of a user is read from  *)
(* the payloads themselves, without the service's own descent.             *)

IsWrite == last.op \in {"Put", "MakeDirectory"}

LastParsed == Parse(last.path)

LookupNow(pathName) == Lookup(pathName, Root, store)

LookupPrev(pathName) == Lookup(pathName, prev.Root, prev.store)

Children(st, key) == {st[key][i] : i \in 1..Len(st[key])}

Named(st, key, name) == {e \in Children(st, key) : e.Name = name}

\* What the first k elements of a path name in the tree rooted at rootKey:
\* a directory, a file, nothing, or nothing because a shorter prefix is not
\* a directory.
RECURSIVE NodeAt(_, _, _, _, _)
NodeAt(st, rootKey, user, elems, k) ==
    IF k = 0
    THEN [kind |-> "dir", entry |-> DirEntry(<<>>, rootKey, TRUE, 0)]
    ELSE LET parent == NodeAt(st, rootKey, user, elems, k - 1)
         IN IF parent.kind # "dir"
            THEN [kind |-> "blocked", entry |-> NilEntry]
            ELSE LET hits == Named(st, parent.entry.Key,
                                   Path(MkParsed(user, SubSeq(elems, 1, k))))
                 IN IF hits = {}
                    THEN [kind |-> "absent", entry |-> NilEntry]
                    ELSE LET e == CHOOSE e \in hits : TRUE
                         IN [kind |-> IF e.IsDir THEN "dir" ELSE "file",
                             entry |-> e]

\* The node a parsed path names in the current tree, and in the tree before
\* the last call.
NodeNow(parsed) ==
    NodeAt(store, Root[parsed.User], parsed.User, parsed.Elems,
           Len(parsed.Elems))

NodePrev(parsed) ==
    NodeAt(prev.store, prev.Root[parsed.User], parsed.User, parsed.Elems,
           Len(parsed.Elems))

----------------------------------------------------------------------------
(* Properties *)

\* C1: after a successful Put(p, data) on a path with at least one element,
\* Lookup(p) succeeds and returns an entry named p whose key is the key Put
\* returned, the blob stored under that key is data, and the walk from the
\* user's new root key down the path reaches that same entry.
C1_LookupAfterPut ==
    (last.op = "Put" /\ last.err = Nil) =>
        LET l == LookupNow(last.path)
        IN /\ Len(LastParsed.Elems) >= 1
           /\ l.err = Nil
           /\ l.entry.Name = Path(LastParsed)
           /\ l.entry.Key = last.key
           /\ ~ l.entry.IsDir
           /\ StoreGet(store, last.key) = last.data
           /\ NodeNow(LastParsed).kind = "file"
           /\ NodeNow(LastParsed).entry = l.entry

C1_Witness ==
    /\ last.op = "Put" /\ last.err = Nil
    /\ Len(LastParsed.Elems) = 2
    /\ last.data # <<>>
    /\ puts[Path(LastParsed)] = 2

\* C2: the k-th successful Put of a path stores sequence k-1 for its entry.
C2_SequenceCountsPuts ==
    (last.op = "Put" /\ last.err = Nil) =>
        LookupNow(last.path).entry.Sequence + 1 = puts[Path(LastParsed)]

\* C3: a Put on an existing non-directory entry whose options carry a
\* sequence number other than the stored one fails, with SequenceMismatch
\* unless the store refused the data blob first, and leaves the Root map,
\* the parent directory's payload and the entry Lookup returns as they were.
C3_Case ==
    /\ last.op = "Put"
    /\ LastParsed.err = Nil
    /\ Len(LastParsed.Elems) >= 1
    /\ LastParsed.User \in DOMAIN prev.Root
    /\ NodePrev(LastParsed).kind = "file"
    /\ ~ last.opts.isNil
    /\ last.opts.Sequence # 0
    /\ last.opts.Sequence # NodePrev(LastParsed).entry.Sequence

C3_SequenceMismatchKeepsTree ==
    C3_Case =>
        /\ last.err # Nil
        /\ last.err # "StoreError" => last.err = "SequenceMismatch"
        /\ Root = prev.Root
        /\ fetchDir(store, NodeNow(Drop(LastParsed, 1)).entry.Key)
             = fetchDir(prev.store, NodePrev(Drop(LastParsed, 1)).entry.Key)
        /\ LookupNow(last.path) = LookupPrev(last.path)
        /\ LookupNow(last.path).err = Nil

C3_Witness ==
    /\ C3_Case
    /\ last.err = "SequenceMismatch"
    /\ Len(store) > Len(prev.store)

\* C4: an entry created by Put or MakeDirectory under a name its parent
\* directory did not hold is stored with sequence 0, whatever the options.
C4_NewEntrySequenceZero ==
    (/\ IsWrite
     /\ last.err = Nil
     /\ Len(LastParsed.Elems) >= 1
     /\ NodePrev(LastParsed).kind = "absent")
    => NodeNow(LastParsed).entry.Sequence = 0

\* The reads of the model's callers give the same results as before the
\* last call.
\* The call changed neither Root nor the store.
Untouched == Root = prev.Root /\ store = prev.store

\* Every Lookup, and every Glob, gives what it gave before the call; it
\* does when the call touched nothing.
SameLookups ==
    \/ Untouched
    \/ \A pathName \in PathNames : LookupNow(pathName) = LookupPrev(pathName)

SameGlobs ==
    \/ Untouched
    \/ \A pattern \in Patterns :
          Glob(pattern, Root, store) = Glob(pattern, prev.Root, prev.store)

\* The store only grows, and keeps every key's content.
StoreExtends ==
    /\ Len(prev.store) <= Len(store)
    /\ SubSeq(store, 1, Len(prev.store)) = prev.store

RECURSIVE KeysBelow(_, _)
KeysBelow(st, key) ==
    {key} \cup UNION {IF e.IsDir THEN KeysBelow(st, e.Key) ELSE {e.Key} :
                        e \in Children(st, key)}

Reachable(R, st) == UNION {KeysBelow(st, R[u]) : u \in DOMAIN R}

\* C5: when Put or MakeDirectory returns an error, the Root map is what it
\* was, every Lookup and Glob gives the result it gave before, and the
\* blobs the call added to the store are reachable from no root.
C5_FailedWriteKeepsTree ==
    (IsWrite /\ last.err # Nil) =>
        /\ Root = prev.Root
        /\ SameLookups
        /\ SameGlobs
        /\ StoreExtends
        /\ \A key \in (Len(prev.store) + 1)..Len(store) :
               key \notin Reachable(Root, store)

C5_Witness ==
    /\ last.op = "Put"
    /\ last.err = "StoreError"
    /\ last.fault = 3
    /\ Len(store) = Len(prev.store) + 2

\* Whether parsed path q lies strictly above parsed path p.
Above(q, p) ==
    /\ q.User = p.User
    /\ Len(q.Elems) < Len(p.Elems)
    /\ SubSeq(p.Elems, 1, Len(q.Elems)) = q.Elems

\* C6: a Put or MakeDirectory on a path that names a directory entry fails,
\* with CannotOverwriteDirectory unless the store refused the data blob
\* first, and changes nothing a Lookup sees; a directory entry stays a
\* directory entry and changes only by a successful write beneath it.
C6_Case ==
    /\ IsWrite
    /\ LastParsed.err = Nil
    /\ Len(LastParsed.Elems) >= 1
    /\ LastParsed.User \in DOMAIN prev.Root
    /\ NodePrev(LastParsed).kind = "dir"

C6_DirectoryNotOverwritten ==
    /\ C6_Case =>
        /\ last.err # Nil
        /\ last.err # "StoreError" => last.err = "CannotOverwriteDirectory"
        /\ Root = prev.Root
        /\ SameLookups
    /\ IsWrite =>
        \A pathName \in CanonPaths :
            LET q == Parse(pathName)
            IN (/\ Len(q.Elems) >= 1
                /\ q.User \in DOMAIN prev.Root
                /\ NodePrev(q).kind = "dir")
               => /\ NodeNow(q).kind = "dir"
                  /\ NodeNow(q).entry # NodePrev(q).entry
                       => (last.err = Nil /\ Above(q, LastParsed))

C6_Witness ==
    /\ C6_Case
    /\ last.op = "Put"
    /\ last.err = "CannotOverwriteDirectory"
    /\ Children(prev.store, NodePrev(LastParsed).entry.Key) # {}

\* C7: MakeDirectory on a path that names a non-directory entry succeeds
\* (unless the store fails): the parent directory then holds exactly one
\* entry of that name, a directory, with the replaced entry's sequence
\* plus 1.
C7_Case ==
    /\ last.op = "MakeDirectory"
    /\ LastParsed.err = Nil
    /\ Len(LastParsed.Elems) >= 1
    /\ LastParsed.User \in DOMAIN prev.Root
    /\ NodePrev(LastParsed).kind = "file"

C7_MakeDirectoryReplacesFile ==
    C7_Case =>
        /\ last.err \in {Nil, "StoreError"}
        /\ last.err = Nil =>
            LET payload == fetchDir(store, NodeNow(Drop(LastParsed, 1)).entry.Key)
                hits == {i \in 1..Len(payload) :
                            payload[i].Name = Path(LastParsed)}
            IN /\ Cardinality(hits) = 1
               /\ \A i \in hits :
                    /\ payload[i].IsDir
                    /\ payload[i].Sequence
                         = NodePrev(LastParsed).entry.Sequence + 1

C7_Witness ==
    /\ C7_Case
    /\ last.err = Nil
    /\ NodePrev(LastParsed).entry.Sequence = 1

\* C8: MakeDirectory on a bare user name succeeds only when the Root map
\* has no entry for the user; when it has one the call fails with
\* AlreadyExists and leaves the Root map and the store as they were.
C8_Case ==
    /\ last.op = "MakeDirectory"
    /\ LastParsed.err = Nil
    /\ Len(LastParsed.Elems) = 0

C8_RootCreatedOnce ==
    C8_Case =>
        /\ last.err = Nil => LastParsed.User \notin DOMAIN prev.Root
        /\ LastParsed.User \in DOMAIN prev.Root =>
              /\ last.err = "AlreadyExists"
              /\ Root = prev.Root
              /\ store = prev.store
              /\ SameLookups

C8_Witness ==
    /\ C8_Case
    /\ last.err = "AlreadyExists"
    /\ Children(store, Root[LastParsed.User]) # {}

\* C9 as stated: under a user without a root every Put, Lookup, Glob and
\* MakeDirectory of a non-root path fails with NoSuchUser and changes
\* neither the Root map nor the store.
C9_Case ==
    /\ last.op # "none"
    /\ LastParsed.err = Nil
    /\ LastParsed.User \notin DOMAIN prev.Root
    /\ ~ (last.op = "MakeDirectory" /\ Len(LastParsed.Elems) = 0)

C9_NoSuchUserForEveryCall ==
    C9_Case =>
        /\ last.err = "NoSuchUser"
        /\ Root = prev.Root
        /\ store = prev.store

\* C9 as amended: under a user without a root a Put or a Lookup of the bare
\* user name fails with MustUseMakeDirectory or UseGlobForDirectories, every
\* other Put, Lookup, Glob and MakeDirectory of a non-root path fails with
\* NoSuchUser; none changes the Root map or the store, and a user enters
\* the Root map only by a successful MakeDirectory of the bare user name.
C9_NoRootNoEffect ==
    /\ C9_Case =>
        /\ last.err =
             IF last.op = "Put" /\ Len(LastParsed.Elems) = 0
             THEN "MustUseMakeDirectory"
             ELSE IF last.op = "Lookup" /\ Len(LastParsed.Elems) = 0
             THEN "UseGlobForDirectories"
             ELSE "NoSuchUser"
        /\ Root = prev.Root
        /\ store = prev.store
    /\ DOMAIN Root # DOMAIN prev.Root =>
        /\ last.op = "MakeDirectory"
        /\ LastParsed.err = Nil
        /\ Len(LastParsed.Elems) = 0
        /\ last.err = Nil
        /\ DOMAIN Root = DOMAIN prev.Root \cup {LastParsed.User}

C9_Witness ==
    /\ C9_Case
    /\ last.op = "Put"
    /\ Len(LastParsed.Elems) = 1
    /\ last.err = "NoSuchUser"
    /\ DOMAIN Root # {}

\* C10: a Put, MakeDirectory or Lookup whose path has a proper prefix that
\* names no directory fails, with NotFound when the first such prefix is
\* absent and NotADirectory when it names a non-directory, writes no blob
\* and leaves the Root map as it was; so a write succeeds only when every
\* proper prefix names a directory.
C10_Case ==
    /\ last.op \in {"Put", "MakeDirectory", "Lookup"}
    /\ LastParsed.err = Nil
    /\ Len(LastParsed.Elems) >= 1
    /\ LastParsed.User \in DOMAIN prev.Root

C10_BadPrefixes ==
    {k \in 1..(Len(LastParsed.Elems) - 1) :
        NodePrev(First(LastParsed, k)).kind # "dir"}

C10_OnlyLastElementCreated ==
    C10_Case =>
        /\ last.err = Nil => C10_BadPrefixes = {}
        /\ C10_BadPrefixes # {} =>
            LET k == CHOOSE k \in C10_BadPrefixes :
                        \A j \in C10_BadPrefixes : k <= j
            IN /\ last.err =
                    IF NodePrev(First(LastParsed, k)).kind = "absent"
                    THEN "NotFound" ELSE "NotADirectory"
               /\ Root = prev.Root
               /\ store = prev.store

C10_Witness ==
    /\ C10_Case
    /\ last.op = "MakeDirectory"
    /\ C10_BadPrefixes # {}
    /\ last.err = "NotADirectory"

----------------------------------------------------------------------------
(* Glob *)

LastIsGlob ==
    /\ last.op = "Glob"
    /\ LastParsed.err = Nil
    /\ LastParsed.User \in DOMAIN Root

\* The paths of the pattern's depth whose every element matches the
\* pattern's element at the same position.
MatchingElems(pat, names) ==
    {es \in [1..Len(pat) -> names] :
        \A i \in 1..Len(pat) : pat[i] = Star \/ pat[i] = es[i]}

\* The entries of the current tree that a pattern names, read from the
\* payloads: the root for a pattern of no element, and otherwise the
\* entries found under directories only.
GlobExpected(parsed, names) ==
    IF Len(parsed.Elems) = 0
    THEN {DirEntry(Path(parsed), Root[parsed.User], TRUE, 0)}
    ELSE {NodeNow(MkParsed(parsed.User, es)).entry :
            es \in {x \in MatchingElems(parsed.Elems, names) :
                      NodeNow(MkParsed(parsed.User, x)).kind
                          \in {"dir", "file"}}}

GlobReturns(expected) ==
    /\ last.err = Nil
    /\ {last.next[i] : i \in 1..Len(last.next)} = expected
    /\ Len(last.next) = Cardinality(expected)
    /\ \A i \in 1..(Len(last.next) - 1) :
          NameLess(last.next[i].Name, last.next[i + 1].Name)

C11_Case ==
    /\ LastIsGlob
    /\ \A i \in 1..Len(LastParsed.Elems) : LastParsed.Elems[i] # BadPat

\* C11: a Glob whose pattern has k elements, under a user that has a root,
\* returns exactly the entries at depth k whose elements match the pattern
\* element by element and whose proper ancestors are all directories, each
\* once, in ascending order of name.
C11_GlobReturnsMatches ==
    C11_Case => GlobReturns(GlobExpected(LastParsed, ElemNames))

\* A Glob that returns two entries which the directory payload holds in
\* descending order of name.
C11_Witness ==
    /\ C11_Case
    /\ Len(last.next) >= 2
    /\ LET payload == fetchDir(store, Root[LastParsed.User])
       IN /\ Len(payload) >= 2
          /\ NameLess(payload[2].Name, payload[1].Name)

WideChild(e) == NodeNow(MkParsed("u", <<e>>))

\* The root of u holds the files a and b and the directory c, and the last
\* call is Glob("u/c").
C12_Case ==
    /\ LastIsGlob
    /\ last.path = Path(MkParsed("u", <<"c">>))
    /\ WideChild("a").kind = "file"
    /\ WideChild("b").kind = "file"
    /\ WideChild("c").kind = "dir"

\* C12 as stated: Glob("u/c") on a root holding a, b and the directory c
\* returns exactly the entry of c, named with a trailing separator.
C12_GlobAddsSeparator ==
    C12_Case =>
        /\ last.err = Nil
        /\ Len(last.next) = 1
        /\ last.next[1].Key = WideChild("c").entry.Key
        /\ last.next[1].Name = Append(Path(MkParsed("u", <<"c">>)), Sep)

\* C12: Glob("u/c") on a root holding a, b and the directory c returns
\* exactly the entry of c as the root's payload holds it, its name being the
\* path u/c without a trailing separator.
C12_GlobNamesDirectoryPlainly ==
    C12_Case =>
        /\ last.err = Nil
        /\ Len(last.next) = 1
        /\ last.next[1] = WideChild("c").entry
        /\ last.next[1].IsDir
        /\ last.next[1].Name = Path(MkParsed("u", <<"c">>))

C12_Witness == C12_Case /\ last.err = Nil /\ Len(last.next) = 1

\* C13: a Glob under a user that has a root, whose pattern has an element
\* of invalid wildcard syntax, fails with MalformedPattern, whatever the
\* tree holds at the level of that element.
C13_MalformedPatternAlwaysReported ==
    (/\ LastIsGlob
     /\ \E i \in 1..Len(LastParsed.Elems) : LastParsed.Elems[i] = BadPat)
        => last.err = "MalformedPattern"

\* C14: a call whose path name does not parse returns the MalformedPath
\* error, whichever operation it is.
C14_ParseFailureIsAnError ==
    (last.op # "none" /\ LastParsed.err # Nil) => last.err = "MalformedPath"

----------------------------------------------------------------------------
(* The trees in the store *)

\* The keys of the directory payloads of the tree rooted at key.
RECURSIVE DirKeys(_, _)
DirKeys(st, key) ==
    {key} \cup UNION {DirKeys(st, e.Key) : e \in {c \in Children(st, key) : c.IsDir}}

NoDuplicateNames(payload) ==
    \A i, j \in 1..Len(payload) :
        payload[i].Name = payload[j].Name => i = j

\* C18: no directory payload reachable from a key of the Root map holds two
\* entries of the same name.
C18_NamesUniqueInPayload ==
    \A u \in DOMAIN Root :
        \A key \in DirKeys(store, Root[u]) : NoDuplicateNames(store[key])

\* A successful write over an existing entry of a root that holds two
\* entries.
C18_Witness ==
    /\ IsWrite
    /\ last.err = Nil
    /\ LastParsed.err = Nil
    /\ Len(LastParsed.Elems) = 1
    /\ NodePrev(LastParsed).kind = "file"
    /\ Len(prev.store[prev.Root[LastParsed.User]]) >= 2
    /\ Len(store[Root[LastParsed.User]]) >= 2

\* All the entries of the tree rooted at the directory blob of a key.
RECURSIVE Tree(_, _)
Tree(st, key) ==
    UNION {{e} \cup (IF e.IsDir THEN Tree(st, e.Key) ELSE {}) :
             e \in Children(st, key)}

\* C19: a call leaves the content of every key of the store as it was, and
\* with it the tree read from every key that holds a directory payload, a
\* former root key or not: a write adds blobs and changes none.
C19_CopyOnWrite ==
    \/ store = prev.store
    \/ /\ StoreExtends
       /\ \A key \in 1..Len(prev.store) :
             /\ store[key] = prev.store[key]
             /\ IsDirBlob(prev.store[key])
                   => Tree(store, key) = Tree(prev.store, key)

\* A successful write under a root that held an entry: the tree of the
\* former root key is still there, and is not the tree of the new root key.
C19_Witness ==
    /\ IsWrite
    /\ last.err = Nil
    /\ LastParsed.err = Nil
    /\ LastParsed.User \in DOMAIN prev.Root
    /\ Tree(prev.store, prev.Root[LastParsed.User]) # {}
    /\ Tree(store, prev.Root[LastParsed.User])
         # Tree(store, Root[LastParsed.User])

\* The paths a write of p may change: p and the directories above it.
OnPathOf(q, p) == q = p \/ Above(q, p)

C20_Case == IsWrite /\ last.err = Nil /\ LastParsed.err = Nil

\* C20: a successful Put or MakeDirectory of p changes the entry of p and
\* of the directories above p only: a Lookup of any other path returns the
\* entry it returned before, or fails as it failed before, and the Root map
\* keeps the keys of all other users.
C20_WriteChangesOnlyItsPath ==
    C20_Case =>
        /\ \A pathName \in CanonPaths :
              ~ OnPathOf(Parse(pathName), LastParsed) =>
                  /\ LookupPrev(pathName).err = Nil
                        => LookupNow(pathName) = LookupPrev(pathName)
                  /\ LookupPrev(pathName).err # Nil
                        => LookupNow(pathName).err # Nil
        /\ \A u \in Users \ {LastParsed.User} :
              /\ u \in DOMAIN Root <=> u \in DOMAIN prev.Root
              /\ u \in DOMAIN Root => Root[u] = prev.Root[u]

\* A successful write two elements deep while another entry of the same
\* user, not above the written path, exists.
C20_Witness ==
    /\ C20_Case
    /\ Len(LastParsed.Elems) = 2
    /\ \E pathName \in CanonPaths :
          /\ Parse(pathName).User = LastParsed.User
          /\ ~ OnPathOf(Parse(pathName), LastParsed)
          /\ LookupPrev(pathName).err = Nil
          /\ LookupNow(pathName) = LookupPrev(pathName)

----------------------------------------------------------------------------
(* The lock *)

WritersInside == {p \in Procs : proc[p].op \in WriteOps /\ proc[p].pc \in Inside}

ReadersInside == {p \in Procs : proc[p].op \in ReadOps /\ proc[p].pc \in Inside}

\* C15: at most one Put or MakeDirectory is between taking mu and releasing
\* it, and no Lookup or Glob is while one is; a call reads or assigns Root
\* only while it holds mu, a write exclusively and a read shared with other
\* reads only.
C15_LockDiscipline ==
    /\ Cardinality(WritersInside) <= 1
    /\ WritersInside # {} => ReadersInside = {}
    /\ \A p \in WritersInside : mu.writers = {p} /\ mu.readers = {}
    /\ \A p \in ReadersInside : p \in mu.readers /\ mu.writers = {}
    /\ \A p \in Procs : proc[p].pc \notin Inside =>
          p \notin mu.writers \cup mu.readers

\* Two calls of Lookup or Glob inside the lock together.
C15_Witness == Cardinality(ReadersInside) = 2 /\ Cardinality(mu.readers) = 2

\* The results a call of Lookup or Glob gives on the trees of the root keys
\* that were current at some time during the call.
ResultsDuring(p) ==
    {ReadCall(proc[p].op, proc[p].path,
              RootOf(Parse(proc[p].path).User, k), store) :
        k \in proc[p].seen}

HasResult(p) == proc[p].op \in ReadOps /\ proc[p].pc = "unlock"

\* C16: a Lookup or Glob returns the result of the tree of a root key that
\* was current during the call, the one before a write that runs at the same
\* time or the one that write assigns, and of no other tree.
C16_ReadsSeeCommittedTrees ==
    \A p \in Procs :
        HasResult(p) =>
            [err |-> proc[p].err, entry |-> proc[p].entry,
             next |-> proc[p].next] \in ResultsDuring(p)

\* A Lookup or Glob during which a write assigned Root, and which returns
\* the result of the new tree, different from that of the old.
C16_Witness ==
    \E p \in Procs :
        /\ HasResult(p)
        /\ Cardinality(proc[p].seen) = 2
        /\ Cardinality(ResultsDuring(p)) = 2
        /\ proc[p].snap = RootKey(Root, Parse(proc[p].path).User)

Returned(p, op) ==
    proc[p].pc = "idle" /\ proc[p].op = op /\ proc[p].err = Nil

\* C17: when two goroutines have each returned from a successful Put, to
\* different paths of one user, the tree of the user's root key holds an
\* entry for both paths; and a write that is about to assign Root has built
\* its tree from the root key that is current.
C17_NoLostUpdate ==
    /\ \A p, q \in Procs :
          (/\ p # q
           /\ Returned(p, "Put")
           /\ Returned(q, "Put")
           /\ proc[p].path # proc[q].path
           /\ Parse(proc[p].path).User = Parse(proc[q].path).User)
              => /\ LookupNow(proc[p].path).err = Nil
                 /\ LookupNow(proc[q].path).err = Nil
    /\ \A p \in Procs :
          proc[p].pc = "commit" =>
              proc[p].snap = RootKey(Root, Parse(proc[p].path).User)

\* Both goroutines have returned from a successful Put, to different paths,
\* and the second called while the first was under way.
C17_Witness ==
    /\ Returned(1, "Put")
    /\ Returned(2, "Put")
    /\ proc[2].during
    /\ proc[1].path # proc[2].path
    /\ LookupNow(proc[1].path).err = Nil
    /\ LookupNow(proc[2].path).err = Nil
====
